---- MODULE Spec2Model ----
(***************************************************************************)
(* A model of tracking-allocator: the group-id generator, the token/guard  *)
(* state machine over the thread-local CURRENT_ALLOCATION_TOKEN cell, and  *)
(* the GlobalAlloc shim (alloc/dealloc) with its trailing metadata slot.   *)
(*                                                                         *)
(* Option<AllocationGroupId> is a NonZeroUsize with the niche optimisation:*)
(* it is one machine word in which 0 is None and n > 0 is Some(n).  The    *)
(* model keeps that representation, so a word read back from memory is an  *)
(* Option<AllocationGroupId> whatever it holds.                            *)
(***************************************************************************)
EXTENDS Integers, Sequences, FiniteSets, TLC

\* ------------------------------------------------------------------ bounds
\* Width of usize in the model (the code's w-bit machine word).
UsizeBits == 3
\* Number of registrations the full specification performs (ids 2..MaxTokens+1).
MaxTokens == 2
\* Number of AllocationGuards alive at once on one thread.
MaxGuards == 2
\* Number of blocks the wrapped allocator hands out in one behaviour.
MaxBlocks == 2

Modulus == 2 ^ UsizeBits
UsizeMax == Modulus - 1
Usize == 0 .. UsizeMax

\* The threads that call register(); the guards, the spans and the shim are
\* thread-local, and the full specification follows them on one thread.
Threads == {"t1", "t2"}
Main == {"t1"}
Spans == {"s1"}

\* ------------------------------------------------------------ token.rs ids
\* Option<AllocationGroupId>::None, as the word it occupies.
None == 0
\* AllocationGroupId::ROOT
ROOT == 1
\* AllocationGroupId::as_usize: returns ROOT's value whatever self is.
as_usize(self) == ROOT

\* AtomicUsize::fetch_add(1): the new value, wrapping at the word size.
WrappingAdd(a, b) == (a + b) % Modulus
\* AtomicUsize::fetch_max(v): the new value.
UMax(a, b) == IF a >= b THEN a ELSE b

\* A mutant of NextOutcome: the comparison of the spec's prose, strictly greater.
NextOutcomeStrict(group_id, highest_group_id) ==
    IF group_id > highest_group_id
    THEN IF group_id = 0 THEN "panic" ELSE "some"
    ELSE "none"
\* A mutant of NextOutcome: no exhaustion check at all.
NextOutcomeUnchecked(group_id, highest_group_id) ==
    IF group_id = 0 THEN "panic" ELSE "some"
\* The tail of AllocationGroupId::next: what the call returns, given the value
\* fetch_add returned and the value fetch_max returned.
NextOutcome(group_id, highest_group_id) ==
    IF group_id >= highest_group_id
    THEN IF group_id = 0 THEN "panic" ELSE "some"
    ELSE "none"

\* ------------------------------------------------- token.rs: GuardState
Idle(id) == [tag |-> "Idle", val |-> id]
Active(previous) == [tag |-> "Active", val |-> previous]
GuardStates == [tag : {"Idle", "Active"}, val : Usize]

\* A mutant of transition_to_active: an Active state is entered again silently.
TransitionToActiveLenient(state, current) ==
    [state |-> Active(current), cell |-> state.val, panic |-> FALSE]
\* A mutant of transition_to_active: ROOT is saved as previous, not the value
\* the cell held.
TransitionToActiveSavesRoot(state, current) ==
    IF state.tag = "Idle"
    THEN [state |-> Active(ROOT), cell |-> state.val, panic |-> FALSE]
    ELSE [state |-> state, cell |-> current, panic |-> TRUE]
\* GuardState::transition_to_active on `state`, the thread's cell holding
\* `current`: the new state, the new cell, and whether the call panicked.
TransitionToActive(state, current) ==
    IF state.tag = "Idle"
    THEN [state |-> Active(current), cell |-> state.val, panic |-> FALSE]
    ELSE [state |-> state, cell |-> current, panic |-> TRUE]

\* A mutant of try_transition_to_idle: the Idle arm swaps the cell too.
TryTransitionToIdleSwapsIdle(state, current) ==
    [state |-> Idle(current), cell |-> state.val, ret |-> current, panic |-> FALSE]
\* A mutant of try_transition_to_idle: the cell is reset to ROOT, not to previous.
TryTransitionToIdleToRoot(state, current) ==
    IF state.tag = "Idle"
    THEN [state |-> state, cell |-> current, ret |-> None, panic |-> FALSE]
    ELSE [state |-> Idle(current), cell |-> ROOT, ret |-> current, panic |-> FALSE]
\* GuardState::try_transition_to_idle: the new state, the new cell, the returned
\* Option<AllocationGroupId> and whether the expect on the old cell value panicked
\* (the cell is already replaced and previous already taken when it does).
TryTransitionToIdle(state, current) ==
    IF state.tag = "Idle"
    THEN [state |-> state, cell |-> current, ret |-> None, panic |-> FALSE]
    ELSE IF current = None
         THEN [state |-> Active(None), cell |-> state.val, ret |-> None, panic |-> TRUE]
         ELSE [state |-> Idle(current), cell |-> state.val, ret |-> current,
               panic |-> FALSE]

\* A mutant of transition_to_idle: None from the try is passed on without a panic.
TransitionToIdleLenient(state, current) == TryTransitionToIdle(state, current)
\* GuardState::transition_to_idle: try_transition_to_idle, panicking on None.
TransitionToIdle(state, current) ==
    LET r == TryTransitionToIdle(state, current)
    IN  IF r.ret = None THEN [r EXCEPT !.panic = TRUE] ELSE r

\* ------------------------------------------------------------------ state
VARIABLES
    GROUP_ID,           \* token.rs: static GROUP_ID
    HIGHEST_GROUP_ID,   \* token.rs: static HIGHEST_GROUP_ID
    cell,               \* CURRENT_ALLOCATION_TOKEN's value, per thread
    borrowed,           \* whether that RefCell is mutably borrowed, per thread
    pc,                 \* where each thread is
    local,              \* the locals of the call each thread is inside; ev is the
                        \* tracker callback the thread is inside, with its arguments;
                        \* overflowed is history: an alloc of the thread returned
                        \* null because its augmented size overflowed
    tokens,             \* ids of the AllocationGroupTokens that exist (idle)
    guards,             \* the live AllocationGuards of each thread, oldest first
    span,               \* the UnsafeAllocationGroupToken in each span's extensions
    tracker_set,        \* a global tracker is registered
    tracking_enabled,   \* the process-wide gate
    heap,               \* the wrapped allocator's blocks, by address
    overflow_checks,    \* the build: arithmetic overflow panics (debug) or wraps
    issued,             \* history: ids register() has returned
    none_returned,      \* history: a register() call has returned None
    lifo                \* history: every exit/drop on the thread so far was of the newest guard

vars == <<GROUP_ID, HIGHEST_GROUP_ID, cell, borrowed, pc, local, tokens, guards,
          span, tracker_set, tracking_enabled, heap, overflow_checks,
          issued, none_returned, lifo>>

regVars == <<GROUP_ID, HIGHEST_GROUP_ID, tokens, issued, none_returned>>
guardVars == <<guards, span, lifo>>
shimVars == <<heap>>
registryVars == <<tracker_set, tracking_enabled>>

Addrs == 1 .. MaxBlocks
\* A block of the wrapped allocator: st is "unalloc" (never handed out), "live",
\* "freed" (given back to the wrapped allocator) or "leaked" (given to the shim's
\* dealloc, which never passed it on); size is the caller's layout size, aug the
\* size the wrapped allocator was asked for, meta the word alloc wrote in the
\* trailing slot at offset size.
NoBlock == [st |-> "unalloc", size |-> 0, aug |-> 0, meta |-> None]
FreedBlock == [st |-> "freed", size |-> 0, aug |-> 0, meta |-> None]
LeakedBlock == [st |-> "leaked", size |-> 0, aug |-> 0, meta |-> None]
NoEvent == [ev |-> "none", addr |-> 0, size |-> 0, group |-> None,
            dealloc_group |-> None]
NoLocal == [group_id |-> 0, last_id |-> 0, after_none |-> FALSE, saved |-> None,
            ptr |-> 0, ev |-> NoEvent, overflowed |-> FALSE]
NoSpanToken == [has |-> FALSE, state |-> Idle(ROOT)]

Init ==
    /\ GROUP_ID = as_usize(ROOT) + 1
    /\ HIGHEST_GROUP_ID = as_usize(ROOT) + 1
    /\ cell = [t \in Threads |-> ROOT]
    /\ borrowed = [t \in Threads |-> FALSE]
    /\ pc = [t \in Threads |-> "run"]
    /\ local = [t \in Threads |-> NoLocal]
    /\ tokens = {}
    /\ guards = [t \in Threads |-> <<>>]
    /\ span = [s \in Spans |-> NoSpanToken]
    /\ tracker_set = FALSE
    /\ tracking_enabled = FALSE
    /\ heap = [a \in Addrs |-> NoBlock]
    /\ overflow_checks \in BOOLEAN
    /\ issued = {}
    /\ none_returned = FALSE
    /\ lifo = [t \in Threads |-> TRUE]

\* ------------------------------------------- token.rs: register() / next()
\* AllocationGroupId::next, first atomic step: GROUP_ID.fetch_add(1, Relaxed).
RegisterFetchAdd(t) ==
    /\ pc[t] = "run"
    /\ pc' = [pc EXCEPT ![t] = "next_max"]
    /\ local' = [local EXCEPT ![t].group_id = GROUP_ID,
                              ![t].after_none = none_returned]
    /\ GROUP_ID' = WrappingAdd(GROUP_ID, 1)
    /\ UNCHANGED <<HIGHEST_GROUP_ID, tokens, issued, none_returned, cell, borrowed>>
    /\ UNCHANGED <<guardVars, shimVars, registryVars, overflow_checks>>

\* AllocationGroupId::next, second atomic step and the return of register():
\* HIGHEST_GROUP_ID.fetch_max(group_id, AcqRel), the comparison, the map to a token.
RegisterFetchMax(t) ==
    /\ pc[t] = "next_max"
    /\ LET group_id == local[t].group_id
           highest_group_id == HIGHEST_GROUP_ID
           out == NextOutcome(group_id, highest_group_id)
       IN  /\ HIGHEST_GROUP_ID' = UMax(highest_group_id, group_id)
           /\ pc' = [pc EXCEPT ![t] = IF out = "panic" THEN "panicked" ELSE "run"]
           /\ tokens' = IF out = "some" THEN tokens \cup {group_id} ELSE tokens
           /\ issued' = IF out = "some" THEN issued \cup {group_id} ELSE issued
           /\ none_returned' = (none_returned \/ out = "none")
           /\ local' = [local EXCEPT ![t].last_id =
                            IF out = "some" THEN group_id ELSE @]
    /\ UNCHANGED <<GROUP_ID, cell, borrowed>>
    /\ UNCHANGED <<guardVars, shimVars, registryVars, overflow_checks>>

\* What the register() call of thread t returns in this step: "some", "none" or
\* "panic" when it returns, "" when the step is no return of register().
RegisterReturns(t) ==
    IF pc[t] = "next_max" /\ pc'[t] # "next_max"
    THEN NextOutcome(local[t].group_id, HIGHEST_GROUP_ID)
    ELSE ""

\* The id generator alone, any number of calls by concurrently running threads.
RegNext == \E t \in Threads : RegisterFetchAdd(t) \/ RegisterFetchMax(t)
RegSpec == Init /\ [][RegNext]_vars

\* --------------------------------------------------- token.rs: the guards
\* seq without its i-th element
RemoveAt(seq, i) == [j \in 1 .. (Len(seq) - 1) |-> IF j < i THEN seq[j] ELSE seq[j + 1]]

\* AllocationGroupToken::enter -> AllocationGuard::enter: the token is consumed,
\* a GuardState::Idle(id) is made and transitioned to active.  `token` in the
\* guard's record is history (the id of the token consumed), not a field.
Enter(t, id) ==
    /\ pc[t] = "run"
    /\ id \in tokens
    /\ Len(guards[t]) < MaxGuards
    /\ LET r == TransitionToActive(Idle(id), cell[t])
       IN  /\ cell' = [cell EXCEPT ![t] = r.cell]
           /\ guards' = [guards EXCEPT ![t] = Append(@, [state |-> r.state, token |-> id])]
           /\ pc' = [pc EXCEPT ![t] = IF r.panic THEN "panicked" ELSE "run"]
    /\ tokens' = tokens \ {id}
    /\ UNCHANGED <<GROUP_ID, HIGHEST_GROUP_ID, issued, none_returned, borrowed, local>>
    /\ UNCHANGED <<span, lifo, shimVars, registryVars, overflow_checks>>

\* AllocationGuard::exit(mut self): transition_to_idle, the token rebuilt from the
\* id it returned, and then the drop of the consumed guard (Drop::drop runs
\* try_transition_to_idle on what exit left).
Exit(t, i) ==
    /\ pc[t] = "run"
    /\ i \in 1 .. Len(guards[t])
    /\ LET r == TransitionToIdle(guards[t][i].state, cell[t])
           d == TryTransitionToIdle(r.state, r.cell)
       IN  IF r.panic
           THEN /\ pc' = [pc EXCEPT ![t] = "panicked"]
                /\ cell' = [cell EXCEPT ![t] = r.cell]
                /\ guards' = [guards EXCEPT ![t][i].state = r.state]
                /\ UNCHANGED <<tokens, lifo>>
           ELSE /\ pc' = [pc EXCEPT ![t] = IF d.panic THEN "panicked" ELSE "run"]
                /\ cell' = [cell EXCEPT ![t] = d.cell]
                /\ guards' = [guards EXCEPT ![t] = RemoveAt(@, i)]
                /\ tokens' = tokens \cup {r.ret}
                /\ lifo' = [lifo EXCEPT ![t] = @ /\ i = Len(guards[t])]
    /\ UNCHANGED <<GROUP_ID, HIGHEST_GROUP_ID, issued, none_returned, borrowed, local>>
    /\ UNCHANGED <<span, shimVars, registryVars, overflow_checks>>

\* Drop for AllocationGuard, on a guard that was not exited.
DropGuard(t, i) ==
    /\ pc[t] = "run"
    /\ i \in 1 .. Len(guards[t])
    /\ LET d == TryTransitionToIdle(guards[t][i].state, cell[t])
       IN  /\ pc' = [pc EXCEPT ![t] = IF d.panic THEN "panicked" ELSE "run"]
           /\ cell' = [cell EXCEPT ![t] = d.cell]
           /\ guards' = [guards EXCEPT ![t] = RemoveAt(@, i)]
           /\ lifo' = [lifo EXCEPT ![t] = @ /\ i = Len(guards[t])]
    /\ UNCHANGED <<regVars, borrowed, local, span, shimVars, registryVars, overflow_checks>>

\* ------------------------------- token.rs / tracing.rs: the unmanaged token
\* AllocationGroupToken::attach_to_span -> into_unsafe -> with_allocation_group:
\* UnsafeAllocationGroupToken::new(id) is inserted in the span's extensions.
\* ExtensionsMut::insert puts the new value in place and then asserts that
\* there was none before, so attaching to a span that has a token panics.
AttachToSpan(t, id, s) ==
    /\ pc[t] = "run"
    /\ id \in tokens
    /\ tokens' = tokens \ {id}
    /\ span' = [span EXCEPT ![s] = [has |-> TRUE, state |-> Idle(id)]]
    /\ pc' = [pc EXCEPT ![t] = IF span[s].has THEN "panicked" ELSE "run"]
    /\ UNCHANGED <<GROUP_ID, HIGHEST_GROUP_ID, issued, none_returned, cell, borrowed>>
    /\ UNCHANGED <<local, guards, lifo, shimVars, registryVars, overflow_checks>>

\* AllocationLayer::on_enter: UnsafeAllocationGroupToken::enter on the span's
\* token when it has one.
OnEnter(t, s) ==
    /\ pc[t] = "run"
    /\ IF span[s].has
       THEN LET r == TransitionToActive(span[s].state, cell[t])
            IN  /\ cell' = [cell EXCEPT ![t] = r.cell]
                /\ span' = [span EXCEPT ![s].state = r.state]
                /\ pc' = [pc EXCEPT ![t] = IF r.panic THEN "panicked" ELSE "run"]
       ELSE UNCHANGED <<cell, span, pc>>
    /\ UNCHANGED <<regVars, borrowed, local, guards, lifo, shimVars, registryVars>>
    /\ UNCHANGED overflow_checks

\* AllocationLayer::on_exit: UnsafeAllocationGroupToken::exit on the span's token
\* when it has one.
OnExit(t, s) ==
    /\ pc[t] = "run"
    /\ IF span[s].has
       THEN LET r == TransitionToIdle(span[s].state, cell[t])
            IN  /\ cell' = [cell EXCEPT ![t] = r.cell]
                /\ span' = [span EXCEPT ![s].state = r.state]
                /\ pc' = [pc EXCEPT ![t] = IF r.panic THEN "panicked" ELSE "run"]
       ELSE UNCHANGED <<cell, span, pc>>
    /\ UNCHANGED <<regVars, borrowed, local, guards, lifo, shimVars, registryVars>>
    /\ UNCHANGED overflow_checks

\* ------------------------------------------------- the tracker registry
\* AllocationRegistry::set_global_tracker: the first registration wins.
SetGlobalTracker ==
    /\ ~tracker_set
    /\ tracker_set' = TRUE
    /\ UNCHANGED <<regVars, cell, borrowed, pc, local, guardVars, shimVars>>
    /\ UNCHANGED <<tracking_enabled, overflow_checks>>

\* AllocationRegistry::enable_tracking
EnableTracking ==
    /\ tracking_enabled' = TRUE
    /\ UNCHANGED <<regVars, cell, borrowed, pc, local, guardVars, shimVars>>
    /\ UNCHANGED <<tracker_set, overflow_checks>>

\* AllocationRegistry::disable_tracking
DisableTracking ==
    /\ tracking_enabled' = FALSE
    /\ UNCHANGED <<regVars, cell, borrowed, pc, local, guardVars, shimVars>>
    /\ UNCHANGED <<tracker_set, overflow_checks>>

\* get_global_tracker(): Some only when a tracker is set and tracking is enabled.
get_global_tracker == tracker_set /\ tracking_enabled

\* ------------------------------------------------ allocator.rs: the shim
\* mem::size_of::<AllocationGroupId>(), in the model's addressable units.
MetadataSize == 2
\* The layout sizes callers ask for: smaller than a slot, larger than a slot, and
\* so large that adding a slot overflows the word.
Sizes == {1, MetadataSize + 1, UsizeMax}

\* A mutant of CheckedAdd: the sum wraps instead of being refused.
CheckedAddWrapping(a, b) == (a + b) % Modulus
\* usize::checked_add: the sum, or -1 for None.
CheckedAdd(a, b) == IF a + b > UsizeMax THEN -1 ELSE a + b
\* usize subtraction in a build without overflow checks.
WrappingSub(a, b) == (a - b + Modulus) % Modulus

\* What self.inner.alloc can return: null, or the next address never handed out.
InnerAlloc(h) ==
    {0} \cup (IF \E a \in Addrs : h[a].st = "unalloc"
              THEN {CHOOSE a \in Addrs :
                        /\ h[a].st = "unalloc"
                        /\ \A b \in Addrs : h[b].st = "unalloc" => a <= b}
              ELSE {})

\* The words ptr.add(off).read_unaligned() can yield on block a of heap h, whose
\* caller-visible size is `size`: the slot alloc wrote when the block is live and
\* off is where alloc wrote it (offset size); any word when the block has been
\* released, or when off is elsewhere (caller data, or outside the block).
ReadUnaligned(h, a, size, off) ==
    IF h[a].st = "live" /\ off = size THEN {h[a].meta} ELSE Usize

\* The arguments of a tracker callback.
AllocatedEvent(addr, size, group) ==
    [ev |-> "allocated", addr |-> addr, size |-> size, group |-> group,
     dealloc_group |-> None]
DeallocatedEvent(addr, size, group, dealloc_group) ==
    [ev |-> "deallocated", addr |-> addr, size |-> size, group |-> group,
     dealloc_group |-> dealloc_group]

InCall(t) == pc[t] \in {"run", "in_allocated", "in_deallocated"}

\* A mutant of AllocEmits: the event is fired whatever the taken identifier is.
AllocEmitsAlways(maybe_group_id) == get_global_tracker
\* A mutant of AllocEmits: the event is never fired.
AllocEmitsNever(maybe_group_id) == FALSE
\* allocator.rs 78-79: whether alloc invokes tracker.allocated.
AllocEmits(maybe_group_id) == get_global_tracker /\ maybe_group_id # None

\* A mutant of AllocEventGroup: the event is attributed to ROOT.
AllocEventGroupRoot(maybe_group_id) == ROOT
\* allocator.rs 79-81: the group tracker.allocated is given.
AllocEventGroup(maybe_group_id) == maybe_group_id

\* <Allocator as GlobalAlloc>::alloc(layout) called on thread t in the current
\* state, the wrapped allocator answering ptr if it is asked: what the call does.
\*   result  "return" or "panic"
\*   ret     the pointer returned
\*   evs     the tracker callbacks made, with their arguments
\*   inner   the calls made to the wrapped allocator
\*   cell, borrowed   the thread's cell and its borrow flag when the call is over
\*   heap    the blocks when the call is over
AllocCall(t, size, ptr) ==
    IF borrowed[t]
    THEN \* try_borrow_mut fails: unreachable!()
         [result |-> "panic", ret |-> 0, evs |-> <<>>, inner |-> <<>>,
          cell |-> cell[t], borrowed |-> TRUE, heap |-> heap]
    ELSE LET maybe_group_id == cell[t]
             augmented_size == CheckedAdd(size, MetadataSize)
         IN  IF augmented_size = -1
             THEN \* the identifier is put back and null returned
                  [result |-> "return", ret |-> 0, evs |-> <<>>, inner |-> <<>>,
                   cell |-> maybe_group_id, borrowed |-> FALSE, heap |-> heap]
             ELSE [result |-> "return",
                   ret |-> ptr,
                   evs |-> IF AllocEmits(maybe_group_id)
                           THEN <<AllocatedEvent(ptr, size,
                                      AllocEventGroup(maybe_group_id))>>
                           ELSE <<>>,
                   inner |-> <<[fn |-> "alloc", size |-> augmented_size]>>,
                   cell |-> maybe_group_id,
                   borrowed |-> FALSE,
                   heap |-> IF ptr = 0 THEN heap
                            ELSE [heap EXCEPT ![ptr] =
                                    [st |-> "live", size |-> size,
                                     aug |-> augmented_size,
                                     meta |-> maybe_group_id]]]

\* A mutant of DeallocEmits: only the deallocating identifier is looked at.
DeallocEmitsOneSided(maybe_allocating_group_id, maybe_deallocating_group_id) ==
    get_global_tracker /\ maybe_deallocating_group_id # None
\* allocator.rs 119-123: whether dealloc invokes tracker.deallocated.
DeallocEmits(maybe_allocating_group_id, maybe_deallocating_group_id) ==
    /\ get_global_tracker
    /\ maybe_allocating_group_id # None
    /\ maybe_deallocating_group_id # None

\* allocator.rs 104: the heap after self.inner.dealloc(ptr, layout).
InnerDealloc(h, a, size) == [h EXCEPT ![a] = FreedBlock]

\* allocator.rs 104-117: the heap that dealloc's read_unaligned is made on; the
\* call to self.inner.dealloc comes first.
HeapAtRead(a) == InnerDealloc(heap, a, heap[a].size)

\* allocator.rs 114-117: the words the read of the trailing slot can yield, made
\* after the block was handed to the wrapped allocator's dealloc.
DeallocReads(a) ==
    ReadUnaligned(HeapAtRead(a), a, heap[a].size,
                  WrappingSub(heap[a].size, MetadataSize))

\* <Allocator as GlobalAlloc>::dealloc(ptr, layout) called on thread t in the
\* current state for block a with the layout it was allocated with, the read of
\* the trailing slot yielding `word`: what the call does (fields as in AllocCall).
DeallocCall(t, a, word) ==
    LET size == heap[a].size
    IN  IF borrowed[t]
        THEN \* try_borrow_mut fails: the closure returns null, nothing is freed
             [result |-> "return", ret |-> 0, evs |-> <<>>, inner |-> <<>>,
              cell |-> cell[t], borrowed |-> TRUE,
              heap |-> [heap EXCEPT ![a] = LeakedBlock]]
        ELSE LET maybe_deallocating_group_id == cell[t]
                 inner == <<[fn |-> "dealloc", size |-> size]>>
                 freed == InnerDealloc(heap, a, size)
             IN  IF size < MetadataSize /\ overflow_checks
                 THEN \* layout.size() - size_of: attempt to subtract with overflow
                      [result |-> "panic", ret |-> 0, evs |-> <<>>, inner |-> inner,
                       cell |-> None, borrowed |-> TRUE, heap |-> freed]
                 ELSE LET underlying_size == WrappingSub(size, MetadataSize)
                          maybe_allocating_group_id == word
                      IN  [result |-> "return",
                           ret |-> a,
                           evs |-> IF DeallocEmits(maybe_allocating_group_id,
                                                   maybe_deallocating_group_id)
                                   THEN <<DeallocatedEvent(a, underlying_size,
                                              maybe_allocating_group_id,
                                              maybe_deallocating_group_id)>>
                                   ELSE <<>>,
                           inner |-> inner,
                           cell |-> maybe_deallocating_group_id,
                           borrowed |-> FALSE,
                           heap |-> freed]

\* A call into the shim by thread t that does r: the call runs to its return, to
\* its panic, or to the tracker callback it makes (the cell is empty and
\* borrowed while the callback runs, and the call goes on in CallbackReturn).
Perform(t, r, callback) ==
    /\ heap' = r.heap
    /\ IF r.result = "panic"
       THEN /\ pc' = [pc EXCEPT ![t] = "panicked"]
            /\ cell' = [cell EXCEPT ![t] = r.cell]
            /\ borrowed' = [borrowed EXCEPT ![t] = r.borrowed]
            /\ UNCHANGED local
       ELSE IF r.evs # <<>>
            THEN /\ pc' = [pc EXCEPT ![t] = callback]
                 /\ cell' = [cell EXCEPT ![t] = None]
                 /\ borrowed' = [borrowed EXCEPT ![t] = TRUE]
                 /\ local' = [local EXCEPT ![t].saved = r.cell, ![t].ptr = r.ret,
                                           ![t].ev = r.evs[1]]
            ELSE /\ cell' = [cell EXCEPT ![t] = r.cell]
                 /\ borrowed' = [borrowed EXCEPT ![t] = r.borrowed]
                 /\ local' = [local EXCEPT ![t].overflowed =
                                 @ \/ (callback = "in_allocated" /\ r.inner = <<>>)]
                 /\ UNCHANGED pc
    /\ UNCHANGED <<regVars, guardVars, registryVars, overflow_checks>>

\* alloc(layout) is called on thread t, from the program or from inside a
\* tracker callback.
Alloc(t, size) ==
    /\ InCall(t)
    /\ \E ptr \in InnerAlloc(heap) : Perform(t, AllocCall(t, size, ptr), "in_allocated")

\* dealloc(ptr, layout) is called on thread t for a live block, with the layout
\* the block was allocated with.
Dealloc(t, a) ==
    /\ InCall(t)
    /\ heap[a].st = "live"
    /\ \E word \in DeallocReads(a) :
          Perform(t, DeallocCall(t, a, word), "in_deallocated")

\* A mutant of CallbackReturn: the identifier taken from the cell is not put back.
CallbackReturnKeepsEmpty(t) ==
    /\ pc[t] \in {"in_allocated", "in_deallocated"}
    /\ pc' = [pc EXCEPT ![t] = "run"]
    /\ borrowed' = [borrowed EXCEPT ![t] = FALSE]
    /\ local' = [local EXCEPT ![t].saved = None, ![t].ptr = 0, ![t].ev = NoEvent]
    /\ UNCHANGED <<cell, regVars, guardVars, registryVars, heap, overflow_checks>>
\* The tracker callback returns into alloc or dealloc: *token = saved identifier,
\* the borrow ends, the call returns.
CallbackReturn(t) ==
    /\ pc[t] \in {"in_allocated", "in_deallocated"}
    /\ pc' = [pc EXCEPT ![t] = "run"]
    /\ cell' = [cell EXCEPT ![t] = local[t].saved]
    /\ borrowed' = [borrowed EXCEPT ![t] = FALSE]
    /\ local' = [local EXCEPT ![t].saved = None, ![t].ptr = 0, ![t].ev = NoEvent]
    /\ UNCHANGED <<regVars, guardVars, registryVars, heap, overflow_checks>>

\* ------------------------------------------------------ specifications
\* register(), capped at MaxTokens registrations.
Register ==
    \/ \E t \in Main :
          /\ GROUP_ID < as_usize(ROOT) + 1 + MaxTokens
          /\ RegisterFetchAdd(t)
    \/ \E t \in Main : RegisterFetchMax(t)

\* The managed guards of one thread.
Guards ==
    \/ \E t \in Main, id \in Usize : Enter(t, id)
    \/ \E t \in Main, i \in 1 .. MaxGuards : Exit(t, i)
    \/ \E t \in Main, i \in 1 .. MaxGuards : DropGuard(t, i)

\* The span adapter.
SpanLayer ==
    \/ \E t \in Main, id \in Usize, s \in Spans : AttachToSpan(t, id, s)
    \/ \E t \in Main, s \in Spans : OnEnter(t, s)
    \/ \E t \in Main, s \in Spans : OnExit(t, s)

\* The tracker registry.
Registry ==
    \/ SetGlobalTracker
    \/ EnableTracking
    \/ DisableTracking

\* The allocator shim, with the calls a tracker callback makes back into it.
Shim ==
    \/ \E t \in Main, size \in Sizes : Alloc(t, size)
    \/ \E t \in Main, a \in Addrs : Dealloc(t, a)
    \/ \E t \in Main : CallbackReturn(t)

\* Tokens, guards and unmanaged span tokens over the thread-local cell.
TokenNext == Register \/ Guards \/ SpanLayer
TokenSpec == Init /\ [][TokenNext]_vars

\* The shim under every current group the guards can produce.
Next == Register \/ Guards \/ Registry \/ Shim
Spec == Init /\ [][Next]_vars

\* The managed guards alone.
GuardNext == Register \/ Guards
GuardSpec == Init /\ [][GuardNext]_vars

\* The scenario of the example program, on one thread: set the tracker, enable
\* tracking, register A, enter A, allocate X, exit A, allocate Y, free X, free Y.
\* X is the first block the wrapped allocator hands out and Y the second; both
\* allocations succeed.
X == CHOOSE a \in Addrs : \A b \in Addrs : a <= b
Y == X + 1
ScenarioNext ==
    \/ SetGlobalTracker
    \/ tracker_set /\ ~tracking_enabled /\ EnableTracking
    \/ tracking_enabled /\ issued = {} /\ RegisterFetchAdd("t1")
    \/ RegisterFetchMax("t1")
    \/ /\ tracking_enabled /\ heap[X].st = "unalloc" /\ guards["t1"] = <<>>
       /\ \E id \in Usize : Enter("t1", id)
    \/ /\ pc["t1"] = "run" /\ guards["t1"] # <<>> /\ heap[X].st = "unalloc"
       /\ \E size \in Sizes : Alloc("t1", size) /\ heap'[X].st = "live"
    \/ CallbackReturn("t1")
    \/ /\ pc["t1"] = "run" /\ heap[X].st = "live"
       /\ Exit("t1", 1)
    \/ /\ pc["t1"] = "run" /\ guards["t1"] = <<>> /\ heap[X].st = "live"
       /\ heap[Y].st = "unalloc"
       /\ \E size \in Sizes : Alloc("t1", size) /\ heap'[Y].st = "live"
    \/ /\ pc["t1"] = "run" /\ heap[X].st = "live" /\ heap[Y].st = "live"
       /\ Dealloc("t1", X)
    \/ /\ pc["t1"] = "run" /\ heap[X].st = "freed" /\ heap[Y].st = "live"
       /\ Dealloc("t1", Y)
ScenarioSpec == Init /\ [][ScenarioNext]_vars

\* ------------------------------------------------------------------ claims
\* The id of the newest live guard of thread t, ROOT when it has none.
TopOfStack(t) ==
    IF guards[t] = <<>> THEN ROOT ELSE guards[t][Len(guards[t])].token

\* C1: on a thread whose exits and drops have all been of the newest guard, the
\* current group is the id of the newest guard that has not exited, ROOT when
\* there is none, and every live guard still holds as previous the id of the
\* guard entered before it (ROOT for the oldest): entering B under A leaves A's
\* previous alone, and exiting B makes A current again.
C1_CurrentIsTopOfStack ==
    \A t \in Threads :
        (pc[t] = "run" /\ lifo[t]) =>
            /\ cell[t] = TopOfStack(t)
            /\ \A i \in 1 .. Len(guards[t]) :
                   guards[t][i].state =
                       Active(IF i = 1 THEN ROOT ELSE guards[t][i - 1].token)
\* B is active inside A, A's previous is still ROOT.
C1_Witness ==
    \E t \in Threads :
        /\ lifo[t] /\ Len(guards[t]) = 2
        /\ guards[t][1].token # guards[t][2].token
        /\ cell[t] = guards[t][2].token
        /\ guards[t][2].state = Active(guards[t][1].token)
        /\ guards[t][1].state = Active(ROOT)

\* What an alloc call on a running thread is expected to tell the tracker when
\* the thread's current group is G and a tracker is on: one allocated event, with
\* the pointer returned, the layout asked for and G.
AllocReportsOnce(t, size, ptr) ==
    LET r == AllocCall(t, size, ptr)
    IN  r.evs = <<AllocatedEvent(r.ret, size, cell[t])>>

\* C2 as stated: every alloc call made while the current group is G, a tracker
\* is registered and tracking is enabled invokes allocated exactly once, with
\* the returned address, the requested layout and G, and nothing else.
C2_EveryAllocReported ==
    \A t \in Main, size \in Sizes, ptr \in InnerAlloc(heap) :
        (pc[t] = "run" /\ cell[t] # None /\ get_global_tracker) =>
            AllocReportsOnce(t, size, ptr)
\* C2 as amended: the same, for the alloc calls whose augmented size (size plus
\* one identifier slot) does not overflow the word.
C2_AllocReportedUnlessOverflow ==
    \A t \in Main, size \in Sizes, ptr \in InnerAlloc(heap) :
        (/\ pc[t] = "run" /\ cell[t] # None /\ get_global_tracker
         /\ CheckedAdd(size, MetadataSize) # -1) =>
            AllocReportsOnce(t, size, ptr)
\* An alloc under a registered group is inside its allocated callback.
C2_Witness ==
    \E t \in Main :
        /\ pc[t] = "in_allocated"
        /\ local[t].saved > ROOT
        /\ local[t].ev = AllocatedEvent(local[t].ptr, local[t].ev.size, local[t].saved)
        /\ local[t].ptr # 0

\* C3: a block allocated under group G (the word alloc wrote in its trailing
\* slot) and freed with the same layout is reported with allocating group G,
\* whatever group is current at the free, and with the freeing thread's current
\* group as deallocating group: dealloc reads back the word alloc wrote.
C3_DeallocReportsAllocatingGroup ==
    \A t \in Main, a \in Addrs :
        (pc[t] = "run" /\ heap[a].st = "live") =>
            \A word \in DeallocReads(a) :
                LET r == DeallocCall(t, a, word)
                IN  /\ word = heap[a].meta
                    /\ \A i \in 1 .. Len(r.evs) :
                           /\ r.evs[i].group = heap[a].meta
                           /\ r.evs[i].dealloc_group = cell[t]

\* C4: an alloc made while the cell is empty gives its caller a block without an
\* allocated event, the block carries no group and its later dealloc is silent
\* even under an active group; a dealloc made while the cell is empty is silent.
C4_AsymmetricSuppression ==
    /\ \A t \in Main :
           (InCall(t) /\ cell[t] = None) =>
               /\ \A size \in Sizes, ptr \in InnerAlloc(heap) :
                      LET r == AllocCall(t, size, ptr)
                      IN  /\ r.result = "return"
                          /\ r.evs = <<>>
                          /\ r.ret # 0 => r.heap[r.ret].meta = None
               /\ \A a \in Addrs :
                      heap[a].st = "live" =>
                          \A word \in DeallocReads(a) :
                              DeallocCall(t, a, word).evs = <<>>
    /\ \A t \in Main, a \in Addrs :
           (InCall(t) /\ heap[a].st = "live" /\ heap[a].meta = None) =>
               \A word \in DeallocReads(a) : DeallocCall(t, a, word).evs = <<>>

\* Where the scenario stands: about to allocate X, about to allocate Y, about to
\* free X, about to free Y.
AtAllocX == pc["t1"] = "run" /\ guards["t1"] # <<>> /\ heap[X].st = "unalloc"
AtAllocY ==
    /\ pc["t1"] = "run" /\ guards["t1"] = <<>>
    /\ heap[X].st = "live" /\ heap[Y].st = "unalloc"
AtFreeX == pc["t1"] = "run" /\ heap[X].st = "live" /\ heap[Y].st = "live"
AtFreeY == pc["t1"] = "run" /\ heap[X].st = "freed" /\ heap[Y].st = "live"
\* The sizes with which an allocation of the scenario can succeed.
FittingSizes == {size \in Sizes : CheckedAdd(size, MetadataSize) # -1}

C6_IdsUniqueAndIncreasing ==
    [][\A t \in Threads :
          RegisterReturns(t) = "some" =>
              /\ local[t].group_id \notin issued
              /\ local[t].group_id > local[t].last_id]_vars

\* C7: once a register() call has returned None, every call that starts
\* afterwards returns None.
C7_ExhaustionIsPermanent ==
    [][\A t \in Threads :
          (pc[t] = "next_max" /\ pc'[t] # "next_max" /\ local[t].after_none) =>
              RegisterReturns(t) = "none"]_vars

\* C8: register() returns None only for an identifier that was already acquired:
\* while the counter has not wrapped every call returns Some.
C8_NoneOnlyForAcquiredId ==
    [][\A t \in Threads :
          RegisterReturns(t) = "none" => local[t].group_id \in issued]_vars

\* C9: enter on an Active unmanaged token and exit on an Idle one panic, and
\* leave the thread's current group and the token's state as they were.
C9_InvalidTransitionPanics ==
    [][\A t \in Main, s \in Spans :
          /\ (span[s].has /\ span[s].state.tag = "Active" /\ OnEnter(t, s)) =>
                 (pc'[t] = "panicked" /\ cell' = cell /\ span' = span)
          /\ (span[s].has /\ span[s].state.tag = "Idle" /\ OnExit(t, s)) =>
                 (pc'[t] = "panicked" /\ cell' = cell /\ span' = span)]_vars
\* A thread has panicked entering a token that is Active.
C9_Witness ==
    \E t \in Main, s \in Spans :
        pc[t] = "panicked" /\ span[s].has /\ span[s].state.tag = "Active"

\* C10: dropping an active guard restores the saved previous group, as exit
\* does; exit with the drop of the consumed (idle) guard that follows it
\* restores it once, the drop changing nothing.
C10_DropRestoresPrevious ==
    [][\A t \in Main, i \in 1 .. MaxGuards :
          /\ DropGuard(t, i) => cell'[t] = guards[t][i].state.val
          /\ Exit(t, i) =>
                 /\ cell'[t] = guards[t][i].state.val
                 /\ Len(guards'[t]) = Len(guards[t]) - 1]_vars
\* A guard was dropped while active: its token is gone, the root is current.
C10_Witness ==
    \E t \in Main :
        /\ pc[t] = "run" /\ guards[t] = <<>> /\ cell[t] = ROOT
        /\ tokens = {} /\ Cardinality(issued) = MaxTokens

\* What an alloc of a representable size does on thread t when the cell holds
\* `group`, the thread is not inside a shim call and the wrapped allocator
\* answers ptr: it reports the block to the tracker under `group` when there is
\* a tracker and a group, and returns ptr with the cell as it was.
AllocIsNormal(t, size, ptr, group) ==
    LET r == AllocCall(t, size, ptr)
    IN  /\ r.result = "return" /\ r.ret = ptr /\ r.cell = group
        /\ r.evs = IF get_global_tracker /\ group # None
                   THEN <<AllocatedEvent(ptr, size, group)>>
                   ELSE <<>>

\* C11: an alloc whose size plus one identifier slot overflows the word returns
\* null, calls neither the wrapped allocator nor the tracker and leaves the cell,
\* the borrow and the heap as they were; an alloc of a representable size made
\* next on the thread is attributed to the same group.
C11_OverflowReturnsNull ==
    \A t \in Main, size \in Sizes :
        (pc[t] = "run" /\ size + MetadataSize > UsizeMax) =>
            LET r == AllocCall(t, size, 0)
            IN  /\ r.result = "return" /\ r.ret = 0
                /\ r.inner = <<>> /\ r.evs = <<>>
                /\ r.cell = cell[t] /\ r.borrowed = borrowed[t] /\ r.heap = heap
                /\ \A next \in Sizes, ptr \in InnerAlloc(r.heap) :
                       next + MetadataSize <= UsizeMax =>
                           AllocIsNormal(t, next, ptr, cell[t])
\* After an overflowing alloc returned null on the thread, an alloc made under a
\* registered group is being reported to the tracker under that group.
C11_Witness ==
    \E t \in Main :
        /\ local[t].overflowed /\ pc[t] = "in_allocated"
        /\ local[t].saved > ROOT /\ local[t].ptr # 0
        /\ local[t].ev.group = local[t].saved

\* The thread is inside a tracker callback.
InCallback(t) == pc[t] \in {"in_allocated", "in_deallocated"}

\* C12: an alloc or dealloc made by a tracker callback on its own thread
\* completes normally: the wrapped allocator is called once and its result
\* returned, and the tracker is not invoked for the nested call.
C12_NestedCallCompletes ==
    \A t \in Main :
        InCallback(t) =>
            /\ \A size \in Sizes, ptr \in InnerAlloc(heap) :
                   size + MetadataSize <= UsizeMax =>
                       LET r == AllocCall(t, size, ptr)
                       IN  /\ r.result = "return" /\ r.ret = ptr
                           /\ Len(r.inner) = 1 /\ r.evs = <<>>
            /\ \A a \in Addrs :
                   heap[a].st = "live" =>
                       \A word \in DeallocReads(a) :
                           LET d == DeallocCall(t, a, word)
                           IN  /\ d.result = "return"
                               /\ Len(d.inner) = 1 /\ d.evs = <<>>
                               /\ d.heap[a].st = "freed"

\* An alloc of a representable size on thread t calls the wrapped allocator once,
\* with the size plus one slot, and returns the pointer it was given.
AllocPassesThrough(t) ==
    \A size \in Sizes, ptr \in InnerAlloc(heap) :
        size + MetadataSize <= UsizeMax =>
            LET r == AllocCall(t, size, ptr)
            IN  /\ r.result = "return" /\ r.ret = ptr
                /\ r.inner = <<[fn |-> "alloc", size |-> size + MetadataSize]>>

\* C13: in every state of the cell and of the tracker registry in which a thread
\* can call alloc, an alloc whose augmented size does not overflow calls the
\* wrapped allocator exactly once with size + one slot and returns exactly the
\* pointer the wrapped allocator returned.
C13_AllocOutcomeUnchanged == \A t \in Main : InCall(t) => AllocPassesThrough(t)

\* C14: while there is no enabled tracker, alloc and dealloc invoke no callback
\* and alloc still records the current group in the block's trailing slot; a
\* block so recorded, freed once tracking is enabled, is reported with the
\* recorded group as its allocating group.
C14_DisabledKeepsMetadata ==
    \A t \in Main :
        pc[t] = "run" =>
            /\ \A size \in Sizes, ptr \in InnerAlloc(heap) :
                   LET r == AllocCall(t, size, ptr)
                   IN  /\ ~get_global_tracker => r.evs = <<>>
                       /\ r.ret # 0 => r.heap[r.ret].meta = cell[t]
            /\ \A a \in Addrs :
                   heap[a].st = "live" =>
                       \A word \in DeallocReads(a) :
                           LET d == DeallocCall(t, a, word)
                           IN  IF get_global_tracker
                               THEN /\ Len(d.evs) = 1
                                    /\ d.evs[1].group = heap[a].meta
                               ELSE d.evs = <<>>

\* C15: on a span with an attached idle token, begin makes the token's id the
\* current group and saves the displaced value, as AllocationGroupToken::enter
\* does; on a span whose token is active, end puts the saved value back, as
\* AllocationGuard::exit does; begin and end on a span without a token leave the
\* current group alone. Neither panics.
C15_UnmanagedMatchesManaged ==
    [][\A t \in Main, s \in Spans :
          /\ (OnEnter(t, s) /\ span[s].has /\ span[s].state.tag = "Idle") =>
                 /\ cell'[t] = span[s].state.val
                 /\ span'[s].state = Active(cell[t])
                 /\ pc'[t] = "run"
          /\ (OnExit(t, s) /\ span[s].has /\ span[s].state.tag = "Active") =>
                 /\ cell'[t] = span[s].state.val
                 /\ span'[s].state.tag = "Idle"
                 /\ pc'[t] = "run"
          /\ ((OnEnter(t, s) \/ OnExit(t, s)) /\ ~span[s].has) =>
                 cell' = cell]_vars
\* A span's token was entered inside a guard: it is current and holds the
\* guard's id as the displaced value.
C15_Witness ==
    \E t \in Main, s \in Spans :
        /\ pc[t] = "run" /\ span[s].has /\ span[s].state.tag = "Active"
        /\ Len(guards[t]) = 1
        /\ span[s].state.val = guards[t][1].token
        /\ cell[t] \notin {None, ROOT, guards[t][1].token}

\* C16: a dealloc issues exactly one free to the wrapped allocator, with the
\* size the shim's alloc asked the wrapped allocator for: layout.size plus one
\* identifier slot.
C16_FreesAugmentedBlock ==
    \A t \in Main, a \in Addrs :
        (pc[t] = "run" /\ heap[a].st = "live") =>
            \A word \in DeallocReads(a) :
                DeallocCall(t, a, word).inner =
                    <<[fn |-> "dealloc", size |-> heap[a].aug]>>

\* C17: when dealloc reads the trailing slot the block has not yet been handed
\* to the wrapped allocator's dealloc: the read is made on a live block.
C17_ReadsBeforeFree ==
    \A a \in Addrs :
        ((\E t \in Main : pc[t] = "run") /\ heap[a].st = "live") =>
            HeapAtRead(a)[a].st = "live"

\* C18: the deallocated event of a dealloc carries the address freed and the
\* size of the layout the caller passed, which for a block freed with the layout
\* it was allocated with is the size its allocated event carried.
C18_DeallocReportsCallerLayout ==
    \A t \in Main, a \in Addrs :
        (pc[t] = "run" /\ heap[a].st = "live") =>
            \A word \in DeallocReads(a) :
                LET d == DeallocCall(t, a, word)
                IN  \A i \in 1 .. Len(d.evs) :
                        /\ d.evs[i].addr = a
                        /\ d.evs[i].size = heap[a].size

\* Thread t makes a call into the shim in this step.
ShimCall(t) ==
    \/ \E size \in Sizes : Alloc(t, size)
    \/ \E a \in Addrs : Dealloc(t, a)

\* C19: a call of alloc or dealloc that returns leaves the cell holding what it
\* held when the call began, whether it returns at once or after its tracker
\* callback (the identifier taken is kept while the callback runs and put back
\* when it returns); a thread outside a shim call never has an empty cell.
C19_CellRestored ==
    [][\A t \in Main :
          /\ (ShimCall(t) /\ pc'[t] = pc[t]) => cell'[t] = cell[t]
          /\ (ShimCall(t) /\ pc[t] = "run" /\ InCallback(t)') =>
                 /\ local'[t].saved = cell[t]
                 /\ cell'[t] = None
          /\ CallbackReturn(t) =>
                 /\ cell'[t] = local[t].saved
                 /\ pc'[t] = "run"
          /\ pc'[t] = "run" => cell'[t] # None]_vars
\* Inside a registered group, with the tracker on: blocks were allocated and
\* freed, an oversized request was refused, and the group is still current.
C19_Witness ==
    \E t \in Main :
        /\ pc[t] = "run" /\ get_global_tracker /\ local[t].overflowed
        /\ Len(guards[t]) = 1 /\ cell[t] = guards[t][1].token
        /\ \E a, b \in Addrs : heap[a].st = "freed" /\ heap[b].st = "live"

\* C20: when the cell cannot be borrowed, alloc and dealloc both end in the
\* unreachable panic: neither returns without having called the wrapped
\* allocator.
C20_BorrowFailurePanics ==
    \A t \in Main :
        (InCall(t) /\ borrowed[t]) =>
            /\ \A size \in Sizes, ptr \in InnerAlloc(heap) :
                   AllocCall(t, size, ptr).result = "panic"
            /\ \A a \in Addrs :
                   heap[a].st = "live" =>
                       \A word \in DeallocReads(a) :
                           DeallocCall(t, a, word).result = "panic"

\* C21: for every layout, sizes smaller than one identifier slot included,
\* dealloc computes its offset and reported size without a panic and without
\* wrapping: the result is layout.size minus one slot as an integer, and lies
\* inside the block.
C21_DeallocArithmeticInRange ==
    \A t \in Main, a \in Addrs :
        (pc[t] = "run" /\ heap[a].st = "live") =>
            /\ WrappingSub(heap[a].size, MetadataSize) = heap[a].size - MetadataSize
            /\ WrappingSub(heap[a].size, MetadataSize) < heap[a].aug
            /\ \A word \in DeallocReads(a) :
                   DeallocCall(t, a, word).result = "return"

\* C22: whatever the order of exits, the token that exiting a guard returns
\* carries the identifier of the token that was consumed to create the guard.
C22_ExitReturnsOwnToken ==
    [][\A t \in Main, i \in 1 .. MaxGuards :
          Exit(t, i) => tokens' = tokens \cup {guards[t][i].token}]_vars

\* C23: whenever a thread has no live guard its current group is ROOT, in
\* whatever order the guards entered on it were exited or dropped.
C23_RootWhenNoGuard ==
    \A t \in Main : (pc[t] = "run" /\ guards[t] = <<>>) => cell[t] = ROOT

\* C24: the allocated callback is not invoked when the wrapped allocator
\* returned null: no allocated event carries address 0.
C24_NoEventForNull ==
    \A t \in Main, size \in Sizes, ptr \in InnerAlloc(heap) :
        pc[t] = "run" =>
            LET r == AllocCall(t, size, ptr)
            IN  /\ r.ret = 0 => r.evs = <<>>
                /\ \A i \in 1 .. Len(r.evs) : r.evs[i].addr # 0

====
